---- MODULE Spec2Model ----
\* react-native-dynamic-toast: the notification provider (arbiter), its three
\* notification components (DynamicIsland, Notch, Toast) and the device
\* classifier, as one state machine.
\*
\* Time is counted in milliseconds.  setTimeout callbacks and animation
\* callbacks are separate steps; a React render + commit + effects pass is one
\* step (Commit).  State setters called outside a render are queued: `pend` is
\* the provider state after the queued updates, `st` the rendered one.
\* An optional value is a sequence: << >> is undefined/null, <<v>> is v.
EXTENDS Integers, Sequences, FiniteSets, TLC

\* ------------------------------------------------------------------ bounds
\* calls of one run: show()/showCustom(), hide(), handle invocations and taps
MaxOps == 3
\* show()/showCustom() calls among them
MaxShows == 2
\* layout events of one instance
MaxLayouts == 2

\* --------------------------------------------------------------- constants
ANIMATION_DURATION == 350
DEFAULT_AUTO_HIDE_DELAY == 3000
APPEAR_DELAY_TOAST == 50
ONHIDE_DELAY == 50
BASE_DYNAMIC_ISLAND_MAX_WIDTH == 350
\* DynamicIslandNotification
CONTENT_PADDING_TOP == 25
CONTENT_PADDING_BOTTOM == 12
\* NotchNotification, Platform.OS === 'ios'
NOTCH_HEIGHT == 44
NOTCH_CONTENT_PADDING_BOTTOM == 10

DYNAMIC_ISLAND == "dynamicIsland"
NOTCH == "notch"
STANDARD == "standard"
DeviceType == {DYNAMIC_ISLAND, NOTCH, STANDARD}

None == << >>
Some(v) == <<v>>
IsSome(o) == o /= << >>
Val(o) == o[1]

Min(a, b) == IF a <= b THEN a ELSE b
Max(a, b) == IF a >= b THEN a ELSE b

\* ------------------------------------------------------- device classifier
devicesWithDynamicIsland ==
  {"iPhone14,2", "iPhone14,3", "iPhone15,2", "iPhone15,3", "iPhone16,1",
   "iPhone16,2", "iPhone16,3", "iPhone16,4", "iPhone16,5", "iPhone16,6",
   "iPhone16,7", "iPhone16,8", "arm64"}

devicesWithNotch ==
  {"iPhone10,3", "iPhone10,6", "iPhone11,2", "iPhone11,4", "iPhone11,6",
   "iPhone11,8", "iPhone12,1", "iPhone12,3", "iPhone12,5", "iPhone13,1",
   "iPhone13,2", "iPhone13,3", "iPhone13,4", "iPhone14,4", "iPhone14,5",
   "iPhone14,6", "iPhone14,7", "iPhone14,8"}

\* !deviceId : undefined and the empty string are falsy
Falsy(deviceId) == deviceId = None \/ Val(deviceId) = ""

\* detectDeviceType without the lookup in devicesWithNotch
detectDeviceTypeNoNotch(deviceId) ==
  IF Falsy(deviceId) THEN STANDARD
  ELSE IF Val(deviceId) \in devicesWithDynamicIsland THEN DYNAMIC_ISLAND
  ELSE STANDARD

detectDeviceType(deviceId) ==
  IF Falsy(deviceId) THEN STANDARD
  ELSE IF Val(deviceId) \in devicesWithDynamicIsland THEN DYNAMIC_ISLAND
  ELSE IF Val(deviceId) \in devicesWithNotch THEN NOTCH
  ELSE STANDARD

\* forceStyle -> DeviceType, the switch of show(), showCustom() and detectDevice
styleToDeviceType(forceStyle) ==
  CASE forceStyle = "dynamicIsland" -> DYNAMIC_ISLAND
    [] forceStyle = "notch" -> NOTCH
    [] OTHER -> STANDARD

\* DeviceAnimationConfig; the ratios and the scale are in hundredths
dynamicIslandConfig ==
  [minWidthRatio |-> 30, maxWidthRatio |-> 90, expandedHeight |-> 75,
   borderRadius |-> 37, initialScale |-> 85, initialHeight |-> 38]

notchConfig ==
  [minWidthRatio |-> 40, maxWidthRatio |-> 90, expandedHeight |-> 80,
   borderRadius |-> 25, initialScale |-> 90, initialHeight |-> 30]

standardConfig ==
  [minWidthRatio |-> 30, maxWidthRatio |-> 90, expandedHeight |-> 70,
   borderRadius |-> 20, initialScale |-> 100, initialHeight |-> 0]

proAdjustments ==
  [minWidthRatio |-> 35, maxWidthRatio |-> 80, expandedHeight |-> 80, initialScale |-> 90]
proMaxAdjustments ==
  [minWidthRatio |-> 25, maxWidthRatio |-> 75, expandedHeight |-> 80, initialScale |-> 90]
notchAdjustments == [minWidthRatio |-> 50, maxWidthRatio |-> 85]

\* deviceSpecificConfigs[deviceId] || {}
deviceSpecificConfigs(id) ==
  CASE id \in {"iPhone16,1", "iPhone16,5"} -> proAdjustments
    [] id \in {"iPhone16,2", "iPhone16,6"} -> proMaxAdjustments
    [] id \in {"iPhone15,4", "iPhone14,8"} -> notchAdjustments
    [] OTHER -> << >>

\* getDeviceAnimationConfig that ignores the explicit class
getDeviceAnimationConfigDetectOnly(deviceId, deviceType) ==
  LET type == detectDeviceType(deviceId)
      baseConfig == CASE type = DYNAMIC_ISLAND -> dynamicIslandConfig
                      [] type = NOTCH -> notchConfig
                      [] OTHER -> standardConfig
      specificConfig == IF Falsy(deviceId) THEN << >> ELSE deviceSpecificConfigs(Val(deviceId))
  IN  [f \in DOMAIN baseConfig |->
         IF f \in DOMAIN specificConfig THEN specificConfig[f] ELSE baseConfig[f]]

\* deviceType: an optional explicit class
getDeviceAnimationConfig(deviceId, deviceType) ==
  LET type == IF deviceType /= None THEN Val(deviceType) ELSE detectDeviceType(deviceId)
      baseConfig == CASE type = DYNAMIC_ISLAND -> dynamicIslandConfig
                      [] type = NOTCH -> notchConfig
                      [] OTHER -> standardConfig
      specificConfig == IF Falsy(deviceId) THEN << >> ELSE deviceSpecificConfigs(Val(deviceId))
  IN  [f \in DOMAIN baseConfig |->
         IF f \in DOMAIN specificConfig THEN specificConfig[f] ELSE baseConfig[f]]

hasDynamicIsland(deviceId) ==
  (IF Falsy(deviceId) THEN "" ELSE Val(deviceId)) \in devicesWithDynamicIsland

\* hasNotch that accepts every device with a cutout
hasNotchAnyCutout(deviceId) ==
  (IF Falsy(deviceId) THEN "" ELSE Val(deviceId))
     \in devicesWithNotch \cup devicesWithDynamicIsland

hasNotch(deviceId) ==
  (IF Falsy(deviceId) THEN "" ELSE Val(deviceId)) \in devicesWithNotch

\* ------------------------------------------------------------------ inputs
\* the identifiers the classifier is asked about: both tables, the keys of the
\* override table, other models, the empty string and undefined
DeviceIds ==
  {Some(id) : id \in devicesWithDynamicIsland \cup devicesWithNotch
                      \cup {"iPhone15,4", "iPhone8,1", "iPad13,1", "SM-G991B", "x86_64", ""}}
  \cup {None}

Opt(a, d, h, f) ==
  [autoHideDelay |-> a, disableAutoHide |-> d, enableHaptics |-> h, forceStyle |-> f]

\* {} : no key supplied
EmptyOptions == Opt(None, None, None, None)

\* the option bags callers pass to each entry point (undefined, or an object)
SuccessOptions == {None}
FailedOptions == {Some(Opt(Some(1000), None, None, Some("notch")))}
ToasterOptions == {Some(Opt(None, Some(TRUE), None, None))}
CustomOptions == {Some(Opt(None, None, Some(FALSE), Some("toast")))}

\* every combination of the keys that change what the provider and the
\* components do
AllOptions ==
  {None} \cup
  {Some(Opt(a, d, h, f)) :
     a \in {None, Some(0), Some(1000)},
     d \in {None, Some(TRUE), Some(FALSE)},
     h \in {None, Some(TRUE), Some(FALSE)},
     f \in {None, Some("dynamicIsland"), Some("notch"), Some("toast")}}

\* (Device.modelId, the provider's forceStyle prop) of one run
ProviderSetups ==
  {<<Some("iPhone15,2"), None>>,
   <<Some("iPhone12,1"), None>>,
   <<None, Some("dynamicIsland")>>}

\* useWindowDimensions()
Window == [width |-> 390, height |-> 844]

\* the layouts a content view reports: nativeEvent.layout
Layouts == {[width |-> w, height |-> h] : w \in {100, 400}, h \in {20, 60}}

\* the option bags of the requests whose content is laid out
LayoutOptions ==
  {None} \cup {Some(Opt(None, None, None, Some(f))) : f \in {"dynamicIsland", "notch", "toast"}}

\* every kind of device with every forceStyle prop
AllSetups ==
  {<<id, f>> : id \in {Some("iPhone15,2"), Some("iPhone12,1"), Some("iPhone8,1"), None},
               f \in {None, Some("dynamicIsland"), Some("notch"), Some("toast")}}

\* the text of the n-th request
Text(n) == "msg" \o ToString(n)

\* ------------------------------------------------------------------- state
VARIABLES
  st,          \* NotificationProvider: the rendered useState values
  pend,        \* the same after the queued state updates
  closeRef,    \* closeRef.current: 0 is null, i the hideNotification of instance i
  hidden,      \* useStatusBarStore: hidden
  deviceId,    \* Device.modelId
  forceStyle,  \* the provider's forceStyle prop
  detected,    \* detectDevice() has completed
  instances,   \* every notification component instance mounted so far
  timers,      \* pending setTimeout callbacks, in registration order
  nShows,      \* show()/showCustom() calls so far
  nCloses,     \* hide() calls, handle invocations and taps so far
  req,         \* bookkeeping about the latest request and the last manual close
               \* after it (read by no operation)
  probe,       \* the last call of the device classifier and its results
  api,         \* the last call of notif() and its outcome
  called       \* the last entry point called and its arguments (read by no
               \* operation)

vars ==
  <<st, pend, closeRef, hidden, deviceId, forceStyle, detected, instances,
    timers, nShows, nCloses, req, probe, api, called>>

\* what no operation of the provider or of a component writes
env == <<deviceId, forceStyle, probe, api>>

\* useState initial values of NotificationProvider
InitialState ==
  [message |-> "", visible |-> FALSE, type |-> "default",
   deviceType |-> STANDARD, customContent |-> None, options |-> EmptyOptions]

\* the mounted instance (0: none); renderNotification returns one element at most
Mounted == {i \in 1..Len(instances) : instances[i].isMounted}
cur == IF Mounted = {} THEN 0 ELSE CHOOSE i \in Mounted : TRUE

\* hideNotification has been called on the instance
Collapsing(i) == instances[i].hideCalls > 0

\* the part of the state the components' callbacks act on
World == [inst |-> instances, tm |-> timers, pend |-> pend, closeRef |-> closeRef]

Timer(i, kind, delay) == [inst |-> i, kind |-> kind, rem |-> delay]

\* a shared value that no animation drives
Idle(zero) == [anim |-> "none", rem |-> 0, zero |-> zero]

\* ------------------------------------------------- notification components
\* an onHide that also empties the slot and the close handle
onHideResetsSlot(w, i) ==
  [w EXCEPT !.pend.visible = FALSE, !.pend.message = "", !.closeRef = 0,
            !.inst[i].onHideCalls = @ + 1]

\* commonProps.onHide: () => setVisible(false)
onHide(w, i) ==
  [w EXCEPT !.pend.visible = FALSE, !.inst[i].onHideCalls = @ + 1]

\* ToastNotification.hideNotification: the callback given to withTiming; it is
\* called when the animation ends and when it is cancelled
slideDownCallback(w, i) ==
  IF w.inst[i].isMounted
  THEN onHide([w EXCEPT !.inst[i].completelyHidden = 1], i)
  ELSE w

\* slideDown.value = <animation>: the animation in flight is cancelled and its
\* callback runs
cancelSlideDown(w, i) ==
  IF w.inst[i].slideDown.anim = "timing" THEN slideDownCallback(w, i) ELSE w

ToastHideNotification(w, i) ==
  LET w0 == [w EXCEPT !.inst[i].hideCalls = @ + 1, !.inst[i].opacity = 0]
      w1 == cancelSlideDown(w0, i)
  IN  IF w.inst[i].slideDown.zero
      \* the value is the target already: the callback runs at once
      THEN slideDownCallback([w1 EXCEPT !.inst[i].slideDown = Idle(TRUE)], i)
      ELSE [w1 EXCEPT !.inst[i].slideDown =
              [anim |-> "timing", rem |-> ANIMATION_DURATION, zero |-> FALSE]]

\* DynamicIslandNotification.hideNotification and NotchNotification.hideNotification
IslandHideNotification(w, i) ==
  [w EXCEPT !.inst[i].hideCalls = @ + 1,
            !.inst[i].textOpacity = 0,
            !.tm = Append(@, Timer(i, "collapse", ANIMATION_DURATION \div 2))]

\* hideNotification that leaves the collapse to a pending auto-hide timer
hideNotificationUnlessTimed(w, i) ==
  IF \E k \in 1..Len(w.tm) : w.tm[k].inst = i /\ w.tm[k].kind = "auto" THEN w
  ELSE IF w.inst[i].variant = STANDARD
  THEN ToastHideNotification(w, i)
  ELSE IslandHideNotification(w, i)

hideNotification(w, i) ==
  IF w.inst[i].variant = STANDARD
  THEN ToastHideNotification(w, i)
  ELSE IslandHideNotification(w, i)

\* a mount effect that always gives the Medium impact
hapticAlwaysMedium(type) == "Medium"

\* Haptics.*Async of the mount effect
hapticFor(type) ==
  CASE type = "success" -> "Success"
    [] type = "failed" -> "Error"
    [] OTHER -> "Medium"

\* enableHaptics = true by default
hapticsEnabled(props) ==
  props.options.enableHaptics = None \/ Val(props.options.enableHaptics)

\* autoHideDelay || DEFAULT_AUTO_HIDE_DELAY
autoHideTimeout(props) ==
  IF props.options.autoHideDelay = None \/ Val(props.options.autoHideDelay) = 0
  THEN DEFAULT_AUTO_HIDE_DELAY
  ELSE Val(props.options.autoHideDelay)

\* !disableAutoHide
autoHideEnabled(props) ==
  props.options.disableAutoHide = None \/ ~Val(props.options.disableAutoHide)

\* useState(getDeviceAnimationConfig(undefined, ...)) of each component
initialDeviceConfig(variant) ==
  CASE variant = DYNAMIC_ISLAND -> getDeviceAnimationConfig(None, None)
    [] variant = NOTCH -> getDeviceAnimationConfig(None, Some(NOTCH))
    [] OTHER -> getDeviceAnimationConfig(None, Some(STANDARD))

\* windowWidth * ratio, the ratio in hundredths
widthRatio(ratio) == (Window.width * ratio) \div 100

\* useSharedValue({w, h}) of each component
initialContentSize(variant) ==
  CASE variant = DYNAMIC_ISLAND ->
         [w |-> BASE_DYNAMIC_ISLAND_MAX_WIDTH,
          h |-> initialDeviceConfig(variant).expandedHeight]
    [] variant = NOTCH ->
         [w |-> widthRatio(initialDeviceConfig(variant).maxWidthRatio),
          h |-> initialDeviceConfig(variant).expandedHeight]
    [] OTHER ->
         [w |-> widthRatio(initialDeviceConfig(variant).maxWidthRatio), h |-> 0]

\* the first render and the mount effect of a new instance; props are the
\* provider's rendered values
NewInstance(variant, props) ==
  [variant |-> variant, isMounted |-> TRUE,
   deviceConfig |-> initialDeviceConfig(variant), configLoaded |-> FALSE,
   measuredOnce |-> FALSE, contentSize |-> initialContentSize(variant),
   currentHeight |-> IF variant = STANDARD THEN 0
                     ELSE initialDeviceConfig(variant).expandedHeight,
   toastHeight |-> 0, layouts |-> 0,
   props |-> [type |-> props.type, options |-> props.options],
   hideCalls |-> 0, onHideCalls |-> 0,
   completelyHidden |-> IF variant = STANDARD THEN 1 ELSE 0,
   expansion |-> IF variant = STANDARD THEN 0 ELSE 1,
   textOpacity |-> 0, opacity |-> 0, slideDown |-> Idle(TRUE),
   haptics |-> IF variant /= STANDARD /\ hapticsEnabled(props)
               THEN <<hapticFor(props.type)>> ELSE << >>]

mountTimers(i, variant, props) ==
  <<Timer(i, "appear",
          IF variant = STANDARD THEN APPEAR_DELAY_TOAST ELSE ANIMATION_DURATION \div 2)>>
  \o (IF autoHideEnabled(props)
      THEN <<Timer(i, "auto", autoHideTimeout(props))>> ELSE << >>)

\* shrinkCallback that hides the instance but never schedules onHide
shrinkCallbackNoOnHide(w, i) ==
  IF w.inst[i].isMounted
  THEN [w EXCEPT !.inst[i].completelyHidden = 1]
  ELSE w

\* shrinkCallback that schedules onHide without hiding the instance
shrinkCallbackNoHidden(w, i) ==
  IF w.inst[i].isMounted
  THEN [w EXCEPT !.tm = Append(@, Timer(i, "done", ONHIDE_DELAY))]
  ELSE w

\* shrinkCallback without the isMounted check
shrinkCallbackUnguarded(w, i) ==
  [w EXCEPT !.inst[i].completelyHidden = 1,
            !.tm = Append(@, Timer(i, "done", ONHIDE_DELAY))]

\* mount with a mount effect that never calls setClose
mountNoSetClose(w, variant, props) ==
  LET i == Len(w.inst) + 1
  IN  [w EXCEPT !.inst = Append(@, NewInstance(variant, props)),
                !.tm = @ \o mountTimers(i, variant, props)]

\* a new instance is mounted and its mount effect runs: setClose(hideNotification),
\* the delayed appear callback, the auto-hide timer
mount(w, variant, props) ==
  LET i == Len(w.inst) + 1
  IN  [w EXCEPT !.inst = Append(@, NewInstance(variant, props)),
                !.closeRef = i,
                !.tm = @ \o mountTimers(i, variant, props)]

\* the cleanup of the mount effect: isMounted.current = false; clearTimeout(timeout)
unmount(w, i) ==
  [w EXCEPT !.inst[i].isMounted = FALSE,
            !.tm = SelectSeq(@, LAMBDA t : ~(t.inst = i /\ t.kind = "auto"))]

\* the delayed callback of the mount effect
appearCallback(w, i) ==
  IF ~w.inst[i].isMounted THEN w
  ELSE IF w.inst[i].variant = STANDARD
  THEN LET w0 == [w EXCEPT !.inst[i].completelyHidden = 0]
           w1 == cancelSlideDown(w0, i)
       IN  [w1 EXCEPT !.inst[i].slideDown = [anim |-> "spring", rem |-> 0, zero |-> FALSE],
                      !.inst[i].opacity = 1,
                      !.inst[i].haptics =
                         IF hapticsEnabled(w.inst[i].props)
                         THEN Append(@, hapticFor(w.inst[i].props.type)) ELSE @]
  ELSE [w EXCEPT !.inst[i].textOpacity = 1]

\* the callbacks hideNotification chains with setTimeout
collapseCallback(w, i) ==
  [w EXCEPT !.inst[i].expansion = 0,
            !.tm = Append(@, Timer(i, "shrink", ANIMATION_DURATION - 50))]

shrinkCallback(w, i) ==
  IF w.inst[i].isMounted
  THEN [w EXCEPT !.inst[i].completelyHidden = 1,
                 !.tm = Append(@, Timer(i, "done", ONHIDE_DELAY))]
  ELSE w

timerCallback(w, t) ==
  CASE t.kind = "auto" -> hideNotification(w, t.inst)
    [] t.kind = "appear" -> appearCallback(w, t.inst)
    [] t.kind = "collapse" -> collapseCallback(w, t.inst)
    [] t.kind = "shrink" -> shrinkCallback(w, t.inst)
    [] OTHER -> onHide(w, t.inst)

\* ---------------------------------------------------- NotificationProvider
\* renderNotification whose NOTCH case falls through to the default case
renderNotificationFallThrough(s) ==
  IF ~s.visible THEN {}
  ELSE CASE s.deviceType = DYNAMIC_ISLAND -> {DYNAMIC_ISLAND}
         [] s.deviceType = NOTCH -> {NOTCH, STANDARD}
         [] OTHER -> {STANDARD}

\* the notification elements renderNotification returns for the state s
renderNotification(s) ==
  IF ~s.visible THEN {}
  ELSE CASE s.deviceType = DYNAMIC_ISLAND -> {DYNAMIC_ISLAND}
         [] s.deviceType = NOTCH -> {NOTCH}
         [] OTHER -> {STANDARD}

\* a status-bar effect that looks for the Dynamic Island only
statusBarHiddenIslandOnly(s) ==
  s.visible /\ s.deviceType = DYNAMIC_ISLAND

\* the status-bar effect
statusBarHidden(s) ==
  s.visible /\ (s.deviceType = DYNAMIC_ISLAND \/ s.deviceType = NOTCH)

\* notifOptions || {}
orEmpty(notifOptions) ==
  IF notifOptions = None THEN EmptyOptions ELSE Val(notifOptions)

\* the forceStyle switch of show() and showCustom()
forcedDeviceType(notifOptions, deviceType) ==
  IF orEmpty(notifOptions).forceStyle = None THEN deviceType
  ELSE CASE Val(orEmpty(notifOptions).forceStyle) = "dynamicIsland" -> DYNAMIC_ISLAND
         [] Val(orEmpty(notifOptions).forceStyle) = "notch" -> NOTCH
         [] Val(orEmpty(notifOptions).forceStyle) = "toast" -> STANDARD
         [] OTHER -> deviceType

\* what the documentation promises the request: how long it stays, whether it
\* is persistent
Request(notifOptions) ==
  LET o == orEmpty(notifOptions)
      auto == o.disableAutoHide = None \/ ~Val(o.disableAutoHide)
  IN  [n |-> nShows + 1,
       auto |-> auto,
       mustStay |-> IF ~auto THEN 0
                    ELSE IF o.autoHideDelay = None THEN DEFAULT_AUTO_HIDE_DELAY
                    ELSE Val(o.autoHideDelay),
       by |-> "", target |-> 0,
       overlap |-> pend.visible \/ cur /= 0]

Init ==
  /\ st = InitialState
  /\ pend = InitialState
  /\ closeRef = 0
  /\ hidden = FALSE
  /\ \E setup \in ProviderSetups : deviceId = setup[1] /\ forceStyle = setup[2]
  /\ detected = FALSE
  /\ instances = << >>
  /\ timers = << >>
  /\ nShows = 0
  /\ nCloses = 0
  /\ req = [n |-> 0, auto |-> FALSE, mustStay |-> 0, by |-> "", target |-> 0,
            overlap |-> FALSE]
  /\ probe = None
  /\ api = None
  /\ called = [entry |-> "", message |-> None, content |-> None, options |-> None]

\* the components' part of the state after a callback
Apply(w) ==
  /\ instances' = w.inst
  /\ timers' = w.tm
  /\ pend' = w.pend
  /\ closeRef' = w.closeRef

\* show without setCustomContent(null)
showKeepsContent(text, notifType, notifOptions) ==
  /\ nShows + nCloses < MaxOps
  /\ nShows < MaxShows
  /\ pend' = [pend EXCEPT !.message = text,
                          !.type = notifType,
                          !.options = orEmpty(notifOptions),
                          !.deviceType = forcedDeviceType(notifOptions, @),
                          !.visible = TRUE]
  /\ nShows' = nShows + 1
  /\ req' = Request(notifOptions)
  /\ UNCHANGED <<st, closeRef, hidden, env, detected, instances, timers, nCloses>>

show(text, notifType, notifOptions) ==
  /\ nShows + nCloses < MaxOps
  /\ nShows < MaxShows
  /\ pend' = [pend EXCEPT !.customContent = None,
                          !.message = text,
                          !.type = notifType,
                          !.options = orEmpty(notifOptions),
                          !.deviceType = forcedDeviceType(notifOptions, @),
                          !.visible = TRUE]
  /\ nShows' = nShows + 1
  /\ req' = Request(notifOptions)
  /\ UNCHANGED <<st, closeRef, hidden, env, detected, instances, timers, nCloses>>

\* the record of a call: the entry point and what it was given
Call(entry, message, content, notifOptions) ==
  [entry |-> entry, message |-> message, content |-> content, options |-> notifOptions]

success(notifOptions) ==
  /\ show(Text(nShows + 1), "success", notifOptions)
  /\ called' = Call("success", Some(Text(nShows + 1)), None, notifOptions)
failed(notifOptions) ==
  /\ show(Text(nShows + 1), "failed", notifOptions)
  /\ called' = Call("failed", Some(Text(nShows + 1)), None, notifOptions)
toaster(notifOptions) ==
  /\ show(Text(nShows + 1), "default", notifOptions)
  /\ called' = Call("toaster", Some(Text(nShows + 1)), None, notifOptions)

\* showCustom that leaves the type of the previous request
showCustomKeepsType(content, notifOptions) ==
  /\ nShows + nCloses < MaxOps
  /\ nShows < MaxShows
  /\ pend' = [pend EXCEPT !.message = "",
                          !.customContent = Some(content),
                          !.options = orEmpty(notifOptions),
                          !.deviceType = forcedDeviceType(notifOptions, @),
                          !.visible = TRUE]
  /\ nShows' = nShows + 1
  /\ req' = Request(notifOptions)
  /\ called' = Call("showCustom", None, Some(content), notifOptions)
  /\ UNCHANGED <<st, closeRef, hidden, env, detected, instances, timers, nCloses>>

\* showCustom without setMessage('')
showCustomKeepsMessage(content, notifOptions) ==
  /\ nShows + nCloses < MaxOps
  /\ nShows < MaxShows
  /\ pend' = [pend EXCEPT !.customContent = Some(content),
                          !.type = "default",
                          !.options = orEmpty(notifOptions),
                          !.deviceType = forcedDeviceType(notifOptions, @),
                          !.visible = TRUE]
  /\ nShows' = nShows + 1
  /\ req' = Request(notifOptions)
  /\ called' = Call("showCustom", None, Some(content), notifOptions)
  /\ UNCHANGED <<st, closeRef, hidden, env, detected, instances, timers, nCloses>>

showCustom(content, notifOptions) ==
  /\ nShows + nCloses < MaxOps
  /\ nShows < MaxShows
  /\ pend' = [pend EXCEPT !.message = "",
                          !.customContent = Some(content),
                          !.type = "default",
                          !.options = orEmpty(notifOptions),
                          !.deviceType = forcedDeviceType(notifOptions, @),
                          !.visible = TRUE]
  /\ nShows' = nShows + 1
  /\ req' = Request(notifOptions)
  /\ called' = Call("showCustom", None, Some(content), notifOptions)
  /\ UNCHANGED <<st, closeRef, hidden, env, detected, instances, timers, nCloses>>

\* hide that clears the visible flag itself after invoking the handle
hideAlsoClears ==
  /\ nShows + nCloses < MaxOps
  /\ IF closeRef /= 0
     THEN Apply([hideNotification(World, closeRef) EXCEPT !.pend.visible = FALSE])
     ELSE Apply([World EXCEPT !.pend.visible = FALSE])
  /\ nCloses' = nCloses + 1
  /\ req' = [req EXCEPT !.by = "hide", !.target = closeRef]
  /\ UNCHANGED <<st, hidden, env, called, detected, nShows>>

hide ==
  /\ nShows + nCloses < MaxOps
  /\ IF closeRef /= 0
     THEN Apply(hideNotification(World, closeRef))
     ELSE Apply([World EXCEPT !.pend.visible = FALSE])
  /\ nCloses' = nCloses + 1
  /\ req' = [req EXCEPT !.by = "hide", !.target = closeRef]
  /\ UNCHANGED <<st, hidden, env, called, detected, nShows>>

\* getCloseRef(): closeRef.current
getCloseRef == closeRef

\* a caller invokes a handle it read from getCloseRef() earlier: every mounted
\* instance registered its hideNotification at its mount
invokeCloseRef ==
  /\ nShows + nCloses < MaxOps
  /\ \E i \in 1..Len(instances) :
       /\ Apply(hideNotification(World, i))
       /\ req' = [req EXCEPT !.by = "handle", !.target = i]
  /\ nCloses' = nCloses + 1
  /\ UNCHANGED <<st, hidden, env, called, detected, nShows>>

\* a tap that clears the visible flag without any collapse sequence
onPressClearsVisible ==
  /\ nShows + nCloses < MaxOps
  /\ cur /= 0
  /\ instances[cur].completelyHidden = 0
  /\ Apply([World EXCEPT !.pend.visible = FALSE])
  /\ nCloses' = nCloses + 1
  /\ req' = [req EXCEPT !.by = "tap", !.target = cur]
  /\ UNCHANGED <<st, hidden, env, called, detected, nShows>>

\* Pressable onPress={hideNotification}
onPress ==
  /\ nShows + nCloses < MaxOps
  /\ cur /= 0
  /\ instances[cur].completelyHidden = 0
  /\ Apply(hideNotification(World, cur))
  /\ nCloses' = nCloses + 1
  /\ req' = [req EXCEPT !.by = "tap", !.target = cur]
  /\ UNCHANGED <<st, hidden, env, called, detected, nShows>>

\* detectDevice that never looks at the forceStyle prop
detectDeviceIgnoresProp ==
  /\ ~detected
  /\ detected' = TRUE
  /\ pend' = [pend EXCEPT !.deviceType = detectDeviceType(deviceId)]
  /\ UNCHANGED <<st, closeRef, hidden, env, called, instances, timers, nShows, nCloses, req>>

\* detectDevice() resumes after `await Device.modelId`
detectDevice ==
  /\ ~detected
  /\ detected' = TRUE
  /\ pend' = [pend EXCEPT !.deviceType =
                IF forceStyle /= None THEN styleToDeviceType(Val(forceStyle))
                ELSE detectDeviceType(deviceId)]
  /\ UNCHANGED <<st, closeRef, hidden, env, called, instances, timers, nShows, nCloses, req>>

\* React's reconciliation of the rendered elements with the mounted instances:
\* an instance whose element is no longer rendered is unmounted, an element
\* with no instance is mounted, an instance whose element stays is kept
RECURSIVE unmountAll(_, _)
unmountAll(w, is) ==
  IF is = {} THEN w
  ELSE LET i == CHOOSE x \in is : TRUE IN unmountAll(unmount(w, i), is \ {i})

RECURSIVE mountAll(_, _, _)
mountAll(w, variants, props) ==
  IF variants = {} THEN w
  ELSE LET v == CHOOSE x \in variants : TRUE
       IN  mountAll(mount(w, v, props), variants \ {v}, props)

reconcile(w, elements, props) ==
  LET gone == {i \in Mounted : w.inst[i].variant \notin elements}
      kept == {w.inst[i].variant : i \in Mounted \ gone}
  IN  mountAll(unmountAll(w, gone), elements \ kept, props)

\* one render of the provider with the queued updates, the commit and the
\* effects (the mount effects of new instances, then the status-bar effect)
Commit ==
  /\ st /= pend
  /\ st' = pend
  /\ Apply(reconcile(World, renderNotification(pend), pend))
  /\ hidden' = statusBarHidden(pend)
  /\ UNCHANGED <<env, called, detected, nShows, nCloses, req>>

\* ------------------------------------------------------------ time, timers
Due == {k \in 1..Len(timers) : timers[k].rem = 0}
Running == {i \in 1..Len(instances) : instances[i].slideDown.anim = "timing"}
Remaining ==
  {timers[k].rem : k \in 1..Len(timers)} \cup {instances[i].slideDown.rem : i \in Running}
Least(S) == CHOOSE x \in S : \A y \in S : x <= y

RemoveAt(s, k) == SubSeq(s, 1, k - 1) \o SubSeq(s, k + 1, Len(s))

\* the next due setTimeout callback runs
FireTimer ==
  /\ Due /= {}
  /\ LET k == Least(Due)
     IN  Apply(timerCallback([World EXCEPT !.tm = RemoveAt(@, k)], timers[k]))
  /\ UNCHANGED <<st, hidden, env, called, detected, nShows, nCloses, req>>

\* a withTiming animation of slideDown reaches its target
AnimationEnd ==
  /\ \E i \in Running :
       /\ instances[i].slideDown.rem = 0
       /\ Apply(slideDownCallback([World EXCEPT !.inst[i].slideDown = Idle(TRUE)], i))
  /\ UNCHANGED <<st, hidden, env, called, detected, nShows, nCloses, req>>

\* time passes until the next timer or animation is due: nothing is due now,
\* the queued render has run and `await Device.modelId` has resumed
Advance ==
  /\ st = pend
  /\ detected
  /\ Remaining /= {}
  /\ LET d == Least(Remaining) IN
       /\ d > 0
       /\ timers' = [k \in 1..Len(timers) |-> [timers[k] EXCEPT !.rem = @ - d]]
       /\ instances' = [i \in 1..Len(instances) |->
                          IF i \in Running
                          THEN [instances[i] EXCEPT !.slideDown.rem = @ - d]
                          ELSE instances[i]]
       /\ req' = [req EXCEPT !.mustStay = Max(0, @ - d)]
  /\ UNCHANGED <<st, pend, closeRef, hidden, env, called, detected, nShows, nCloses>>

Next ==
  \/ \E o \in SuccessOptions : success(o)
  \/ \E o \in FailedOptions : failed(o)
  \/ \E o \in ToasterOptions : toaster(o)
  \/ \E o \in CustomOptions : showCustom(nShows + 1, o)
  \/ hide
  \/ invokeCloseRef
  \/ onPress
  \/ detectDevice
  \/ Commit
  \/ FireTimer
  \/ AnimationEnd
  \/ Advance

Spec == Init /\ [][Next]_vars

\* ------------------------------------------- one Dynamic Island device
\* the provider of an iPhone 14 Pro with no forceStyle prop: requests are
\* rendered as a Toast before detection, as a Dynamic Island after it and as
\* a Notch or a Toast when the call forces it
InitIsland == Init /\ deviceId = Some("iPhone15,2") /\ forceStyle = None

SpecIsland == InitIsland /\ [][Next]_vars

\* ------------------------------------------------- one request, left alone
\* one call of an entry point, with any options, and nothing after it but the
\* event loop: renders, timers, animations
NextSolo ==
  \/ nShows = 0 /\ \E o \in AllOptions : success(o)
  \/ nShows = 0 /\ \E o \in AllOptions : failed(o)
  \/ nShows = 0 /\ \E o \in AllOptions : toaster(o)
  \/ nShows = 0 /\ \E o \in AllOptions : showCustom(1, o)
  \/ detectDevice
  \/ Commit
  \/ FireTimer
  \/ AnimationEnd
  \/ Advance

\* the event loop runs what is due, the awaited promise resolves, time passes
SoloFairness ==
  /\ WF_vars(detectDevice)
  /\ WF_vars(Commit)
  /\ WF_vars(FireTimer)
  /\ WF_vars(AnimationEnd)
  /\ WF_vars(Advance)

SpecSolo == Init /\ [][NextSolo]_vars /\ SoloFairness

\* ------------------------------------- one request on any provider setup
InitSetups ==
  /\ st = InitialState
  /\ pend = InitialState
  /\ closeRef = 0
  /\ hidden = FALSE
  /\ \E setup \in AllSetups : deviceId = setup[1] /\ forceStyle = setup[2]
  /\ detected = FALSE
  /\ instances = << >>
  /\ timers = << >>
  /\ nShows = 0
  /\ nCloses = 0
  /\ req = [n |-> 0, auto |-> FALSE, mustStay |-> 0, by |-> "", target |-> 0,
            overlap |-> FALSE]
  /\ probe = None
  /\ api = None
  /\ called = [entry |-> "", message |-> None, content |-> None, options |-> None]

\* one request with or without a forced style, and the event loop
NextSetups ==
  \/ nShows = 0 /\ \E o \in LayoutOptions : success(o)
  \/ detectDevice
  \/ Commit
  \/ FireTimer
  \/ AnimationEnd
  \/ Advance

SpecSetups == InitSetups /\ [][NextSetups]_vars

\* the option bags that switch the haptic signal on or off
HapticOptions ==
  {None} \cup {Some(Opt(None, None, h, f)) : h \in {Some(TRUE), Some(FALSE)},
                                            f \in {None, Some("toast")}}

\* one request of any kind on any device, and the event loop
NextHaptics ==
  \/ nShows = 0 /\ \E o \in HapticOptions : success(o)
  \/ nShows = 0 /\ \E o \in HapticOptions : failed(o)
  \/ nShows = 0 /\ \E o \in HapticOptions : toaster(o)
  \/ nShows = 0 /\ \E o \in HapticOptions : showCustom(nShows + 1, o)
  \/ detectDevice
  \/ Commit
  \/ FireTimer
  \/ AnimationEnd
  \/ Advance

SpecHaptics == InitSetups /\ [][NextHaptics]_vars

\* ------------------------------------------------------- content layout
\* loadDeviceConfig() of a component resumes after `await Device.modelId`
loadDeviceConfig ==
  /\ \E i \in 1..Len(instances) :
       /\ ~instances[i].configLoaded
       /\ instances' = [instances EXCEPT
            ![i].configLoaded = TRUE,
            ![i].deviceConfig =
               getDeviceAnimationConfig(
                 IF Falsy(deviceId) THEN None ELSE deviceId,
                 CASE instances[i].variant = DYNAMIC_ISLAND -> None
                   [] instances[i].variant = NOTCH -> Some(NOTCH)
                   [] OTHER -> Some(STANDARD))]
  /\ UNCHANGED <<st, pend, closeRef, hidden, env, called, detected, timers, nShows, nCloses, req>>

\* onContentLayout of DynamicIslandNotification and NotchNotification
IslandOnContentLayout(inst, layout) ==
  IF ~inst.isMounted THEN inst
  ELSE LET padding == IF inst.variant = DYNAMIC_ISLAND
                      THEN CONTENT_PADDING_TOP + CONTENT_PADDING_BOTTOM
                      ELSE (NOTCH_HEIGHT + 5) + NOTCH_CONTENT_PADDING_BOTTOM
           maxWidth == IF inst.variant = DYNAMIC_ISLAND
                       THEN Min(BASE_DYNAMIC_ISLAND_MAX_WIDTH,
                                widthRatio(inst.deviceConfig.maxWidthRatio))
                       ELSE Min(widthRatio(inst.deviceConfig.maxWidthRatio), widthRatio(95))
           newHeight == Max(layout.height + padding, inst.deviceConfig.expandedHeight)
           newWidth == IF ~inst.measuredOnce THEN Min(layout.width + 40, maxWidth)
                       ELSE maxWidth
       IN  [inst EXCEPT !.currentHeight = newHeight,
                        !.measuredOnce = TRUE,
                        !.contentSize = [w |-> newWidth, h |-> newHeight]]

\* onContentLayout of ToastNotification
ToastOnContentLayout(inst, layout) ==
  IF ~inst.isMounted \/ inst.measuredOnce THEN inst
  ELSE [inst EXCEPT !.toastHeight = layout.height,
                    !.contentSize = [w |-> widthRatio(inst.deviceConfig.maxWidthRatio),
                                     h |-> layout.height],
                    !.measuredOnce = TRUE]

\* the content view of instance i reports a layout
onContentLayout ==
  /\ \E i \in 1..Len(instances) : \E layout \in Layouts :
       /\ instances[i].layouts < MaxLayouts
       /\ instances' = [instances EXCEPT ![i] =
            [(IF instances[i].variant = STANDARD
              THEN ToastOnContentLayout(instances[i], layout)
              ELSE IslandOnContentLayout(instances[i], layout))
             EXCEPT !.layouts = @ + 1]]
  /\ UNCHANGED <<st, pend, closeRef, hidden, env, called, detected, timers, nShows, nCloses, req>>

\* one request, its renders and timers, and the layout events of its content
NextLayout ==
  \/ nShows = 0 /\ \E o \in LayoutOptions : toaster(o)
  \/ detectDevice
  \/ Commit
  \/ loadDeviceConfig
  \/ onContentLayout
  \/ FireTimer
  \/ AnimationEnd
  \/ Advance

SpecLayout == Init /\ [][NextLayout]_vars

\* ------------------------------------------------------------ the hook
\* the value NotificationProvider gives to NotificationContext.Provider
ContextValue == {"success", "failed", "toaster", "showCustom", "hide", "getCloseRef"}

\* useContext(NotificationContext): the provider's value inside a provider,
\* the default (undefined) outside
useContext(scope) == IF scope = "inside" THEN Some(ContextValue) ELSE None

\* notif that returns the missing context instead of throwing
notifResultSilent(context) ==
  [threw |-> FALSE, error |-> "", value |-> context]

\* the outcome of notif() for the context it reads
notifResult(context) ==
  IF context = None
  THEN [threw |-> TRUE, error |-> "notif must be used within a NotificationProvider",
        value |-> None]
  ELSE [threw |-> FALSE, error |-> "", value |-> context]

\* a component calls notif(), inside or outside a NotificationProvider
notif(scope) ==
  /\ api' = Some([scope |-> scope, result |-> notifResult(useContext(scope))])
  /\ UNCHANGED <<called, st, pend, closeRef, hidden, deviceId, forceStyle, probe, detected,
                 instances, timers, nShows, nCloses, req>>

NextApi ==
  \/ notif("inside")
  \/ notif("outside")
  \/ NextSolo

SpecApi == Init /\ [][NextApi]_vars

\* ------------------------------------------- the classifier on its own
\* a caller asks the classifier about an identifier, with or without an
\* explicit class
Classify(id, type) ==
  /\ probe' = Some([deviceId |-> id,
                    deviceType |-> type,
                    detected |-> detectDeviceType(id),
                    hasDynamicIsland |-> hasDynamicIsland(id),
                    hasNotch |-> hasNotch(id),
                    config |-> getDeviceAnimationConfig(id, type)])
  /\ UNCHANGED <<called, st, pend, closeRef, hidden, deviceId, forceStyle, detected,
                 instances, timers, nShows, nCloses, req, api>>

NextDevices ==
  \E id \in DeviceIds : \E t \in {None} \cup {Some(c) : c \in DeviceType} : Classify(id, t)

SpecDevices == Init /\ [][NextDevices]_vars

\* ------------------------------------------------------------------ claims
\* C1: whatever the interleaving of auto-hide timer expiry, hide(), close-handle
\* invocations and taps, the onHide callback of an instance (of any of the
\* three variants) is invoked at most once.
C1_OnHideAtMostOnce ==
  \A i \in 1..Len(instances) : instances[i].onHideCalls <= 1

\* the queued updates are rendered and the effects have run
Settled == st = pend

\* the latest request is on screen and its instance has not begun to collapse
Displayed == st.visible /\ cur /= 0 /\ ~Collapsing(cur)

\* C2: a request with auto-hide stays displayed for at least its autoHideDelay
\* counted from the call, unless hide(), a close handle or a tap closes it:
\* no timer, collapse sequence or onHide of an earlier request removes it.
C2_StaysForItsDelay ==
  (Settled /\ req.n > 0 /\ req.auto /\ req.mustStay > 0 /\ req.by = "") => Displayed

\* C3: a request shown with disableAutoHide = true stays displayed until it is
\* closed manually, whatever was shown before it.
C3_PersistentStays ==
  (Settled /\ req.n > 0 /\ ~req.auto /\ req.by = "") => Displayed

\* C4: at most one notification instance is mounted at any instant, and exactly
\* one whenever the provider's visible flag is true.
C4_SingleInstance ==
  /\ Cardinality(Mounted) <= 1
  /\ st.visible => Cardinality(Mounted) = 1

C4_Witness ==
  st.visible /\ Cardinality(Mounted) = 1 /\ Len(instances) >= 2 /\ nShows >= 2

\* C5: after show(A) then show(B) before A is disposed, once the render has
\* settled getCloseRef() is the handle of the instance that displays B; and
\* closeRef never changes to the handle of an instance that existed before the
\* step (the end of A's collapse sequence does not register A again).
C5_SettledTarget ==
  (Settled /\ st.visible) => (getCloseRef /= 0 /\ getCloseRef = cur)

C5_NoReRegistration ==
  closeRef' /= closeRef => closeRef' \notin 1..Len(instances)

C5_CloseTargetIsActive == []C5_SettledTarget /\ [][C5_NoReRegistration]_vars

C5_Witness ==
  /\ req.overlap /\ st.visible /\ getCloseRef = cur
  /\ \E i \in 1..Len(instances) : i < cur /\ instances[i].onHideCalls > 0

\* C6: a request whose options carry forceStyle is displayed by the component
\* of that style, whatever the detected device class is.
C6_ForcedStyleMounted ==
  (Settled /\ st.visible /\ st.options.forceStyle /= None)
    => (cur /= 0 /\ instances[cur].variant = styleToDeviceType(Val(st.options.forceStyle)))

\* the class of the device: the provider's forceStyle, else the detected one
DeviceClass ==
  IF forceStyle /= None THEN styleToDeviceType(Val(forceStyle))
  ELSE detectDeviceType(deviceId)

\* C7: a request whose options carry no forceStyle is displayed by the
\* component of the device's class, whatever earlier requests forced.
C7_UnforcedUsesDeviceClass ==
  (Settled /\ detected /\ st.visible /\ st.options.forceStyle = None)
    => (cur /= 0 /\ instances[cur].variant = DeviceClass)

C9_Disposed ==
  /\ Settled /\ ~st.visible /\ ~hidden /\ Mounted = {}
  /\ Len(instances) >= 1
  /\ \A i \in 1..Len(instances) :
       instances[i].onHideCalls = IF i = Len(instances) THEN 1 ELSE 0

\* C9: with auto-hide enabled and nothing after show(), the instance (of any
\* variant) does not begin to collapse before the request's autoHideDelay has
\* passed; then onHide is called exactly once, visible becomes false and the
\* status bar's hidden flag returns to false.
C9_AutoHideCompletes ==
  /\ []C2_StaysForItsDelay
  /\ []C1_OnHideAtMostOnce
  /\ (req.n = 1 /\ req.auto) ~> C9_Disposed

C9_Witness ==
  C9_Disposed /\ req.auto /\ instances[Len(instances)].variant = DYNAMIC_ISLAND

\* the collapse of instance i has just been started: one more hideNotification
\* call, the content fading out, and the next stage scheduled (or, for the
\* toast, the slide already over and onHide called)
CollapseStarted(i) ==
  /\ instances'[i].hideCalls = instances[i].hideCalls + 1
  /\ IF instances[i].variant = STANDARD
     THEN /\ instances'[i].opacity = 0
          /\ \/ instances'[i].slideDown.anim = "timing"
             \/ instances'[i].onHideCalls > instances[i].onHideCalls
     ELSE /\ instances'[i].textOpacity = 0
          /\ Len(timers') = Len(timers) + 1
          /\ timers'[Len(timers')] = Timer(i, "collapse", ANIMATION_DURATION \div 2)

\* C10: invoking the handle an instance registered starts the collapse of
\* that instance at once, in whatever phase it is and whether or not an
\* auto-hide timer is pending.
C10_HandleStartsCollapse ==
  [][(nCloses' = nCloses + 1 /\ req'.by = "handle" /\ instances[req'.target].isMounted)
       => CollapseStarted(req'.target)]_vars

\* the handle was invoked on a persistent notification (no auto-hide timer)
C10_Witness ==
  /\ req.by = "handle" /\ req.target = cur /\ cur /= 0
  /\ ~req.auto
  /\ Collapsing(cur)
  /\ \A k \in 1..Len(timers) : timers[k].kind /= "auto"

\* the step is a call of hide()
HideStep == nCloses' = nCloses + 1 /\ req'.by = "hide"

\* C11: hide() with a registered close handle invokes that handle once and
\* does nothing else (the visible flag changes only if the handle's own
\* completion callback calls onHide); hide() with no registered handle sets
\* visible to false and touches no instance and no timer.
C11_HideFrame ==
  [][HideStep =>
       IF closeRef /= 0
       THEN /\ instances'[closeRef].hideCalls = instances[closeRef].hideCalls + 1
            /\ \A j \in 1..Len(instances) : j /= closeRef => instances'[j] = instances[j]
            /\ Len(instances') = Len(instances)
            /\ closeRef' = closeRef
            /\ [pend' EXCEPT !.visible = pend.visible] = pend
            /\ \/ pend'.visible = pend.visible
               \/ instances'[closeRef].onHideCalls > instances[closeRef].onHideCalls
       ELSE /\ pend' = [pend EXCEPT !.visible = FALSE]
            /\ instances' = instances
            /\ timers' = timers
            /\ closeRef' = closeRef]_vars

\* hide() went through the handle of a mounted island: visible is still true
C11_Witness ==
  /\ req.by = "hide" /\ req.target /= 0 /\ req.target = cur
  /\ instances[cur].variant = DYNAMIC_ISLAND
  /\ instances[cur].hideCalls = 1
  /\ st.visible /\ pend.visible

\* nothing is left for the event loop to run: no queued render, no pending
\* timer, no running animation, detection done
Quiescent == Settled /\ detected /\ timers = << >> /\ Running = {}

\* C12: after hide() was called on the latest request (while it was visible
\* or just requested, before or after its component registered its handle),
\* the notification is eventually no longer visible: once nothing is pending
\* any more, it is not on screen.
C12_HideHides ==
  (req.by = "hide" /\ req.n > 0 /\ Quiescent) => ~st.visible

\* what a user or the application can observe of instance i: its animated
\* values, the onHide calls, the callbacks it has pending
Observable(is, tm, i) ==
  [textOpacity |-> is[i].textOpacity, opacity |-> is[i].opacity,
   expansion |-> is[i].expansion, completelyHidden |-> is[i].completelyHidden,
   slideDown |-> is[i].slideDown, onHideCalls |-> is[i].onHideCalls,
   pending |-> SelectSeq(tm, LAMBDA t : t.inst = i)]

\* C13: a second hide() right after a hide() (same registered handle, nothing
\* shown in between and no time passed) changes nothing observable: no onHide
\* call, no new collapse sequence, no change of the provider's state.
C13_SecondHideNoEffect ==
  [][(HideStep /\ req.by = "hide" /\ closeRef /= 0 /\ req.target = closeRef
        /\ instances[closeRef].hideCalls > 0)
       => /\ pend' = pend
          /\ Observable(instances', timers', closeRef) = Observable(instances, timers, closeRef)]_vars

\* the step is the invocation of the handle of an instance that is no longer
\* mounted
StaleInvoke ==
  /\ nCloses' = nCloses + 1 /\ req'.by = "handle"
  /\ ~instances[req'.target].isMounted

OnHidePending(tm, i) == \E k \in 1..Len(tm) : tm[k].inst = i /\ tm[k].kind = "done"

\* C14: invoking the handle of an unmounted instance changes neither the
\* provider's state nor the close target nor any other instance or its
\* timers, and calls no onHide, at the call or later: an unmounted instance
\* with no onHide already scheduled never schedules or calls one.
C14_StaleFrame ==
  StaleInvoke =>
    LET i == req'.target IN
      /\ pend' = pend /\ closeRef' = closeRef
      /\ Len(instances') = Len(instances)
      /\ \A j \in 1..Len(instances) : j /= i => instances'[j] = instances[j]
      /\ SelectSeq(timers', LAMBDA t : t.inst /= i) = SelectSeq(timers, LAMBDA t : t.inst /= i)
      /\ instances'[i].onHideCalls = instances[i].onHideCalls

C14_StaleSilent ==
  \A i \in 1..Len(instances) :
    (~instances[i].isMounted /\ ~OnHidePending(timers, i))
      => (instances'[i].onHideCalls = instances[i].onHideCalls /\ ~OnHidePending(timers', i))

C14_StaleHandleNoOp == [][C14_StaleFrame]_vars /\ [][C14_StaleSilent]_vars

\* the handle of a replaced island was invoked while its successor is on
\* screen, and the sequence it started has run out
C14_Witness ==
  /\ req.by = "handle" /\ req.target /= 0 /\ cur /= 0 /\ req.target /= cur
  /\ ~instances[req.target].isMounted
  /\ instances[req.target].variant /= STANDARD
  /\ instances[req.target].hideCalls = 1
  /\ instances[req.target].expansion = 0
  /\ \A k \in 1..Len(timers) : timers[k].inst /= req.target
  /\ st.visible /\ ~Collapsing(cur)

\* C15: the onHide callback of an instance that has been unmounted is never
\* invoked afterwards, wherever in its collapse sequence the unmount came.
C15_NoOnHideAfterUnmount ==
  [][\A i \in 1..Len(instances) :
       ~instances[i].isMounted => instances'[i].onHideCalls = instances[i].onHideCalls]_vars

\* C16: getCloseRef() is null or the handle of the mounted instance.
C16_CloseRefIsLive ==
  getCloseRef = 0 \/ instances[getCloseRef].isMounted

\* C17: once the provider's effects have run, the status-bar store's hidden
\* flag is true exactly when a notification is visible and the provider's
\* device type is DYNAMIC_ISLAND or NOTCH.
C17_StatusBarFollows ==
  Settled => (hidden <=> (st.visible /\ st.deviceType \in {DYNAMIC_ISLAND, NOTCH}))

C17_Witness ==
  Settled /\ hidden /\ st.deviceType = NOTCH /\ cur /= 0 /\ instances[cur].variant = NOTCH

\* C18: the height recorded as the expanded-size target at the first layout
\* event of an instance is not changed by a later layout event of the same
\* instance, in any variant.
C18_HeightCapturedOnce ==
  [][\A i \in 1..Len(instances) :
       (instances'[i].layouts = instances[i].layouts + 1 /\ instances[i].layouts >= 1)
         => instances'[i].contentSize.h = instances[i].contentSize.h]_vars

\* C19: notif() outside a NotificationProvider throws and returns nothing,
\* inside one it returns the six operations; calling it changes nothing of the
\* provider, the components or the timers.
C19_Outcome ==
  api /= None =>
    IF Val(api).scope = "outside"
    THEN Val(api).result.threw /\ Val(api).result.value = None
    ELSE /\ ~Val(api).result.threw
         /\ Val(api).result.value =
              Some({"success", "failed", "toaster", "showCustom", "hide", "getCloseRef"})

C19_NoStateChange ==
  api' /= api => UNCHANGED <<st, pend, closeRef, hidden, instances, timers, detected>>

C19_NotifFailsFast == []C19_Outcome /\ [][C19_NoStateChange]_vars

\* notif() was called outside a provider while a notification was on screen
C19_Witness ==
  /\ api /= None /\ Val(api).scope = "outside" /\ Val(api).result.threw
  /\ st.visible /\ cur /= 0

\* C20: the auto-hide timer of the request's instance is due exactly when
\* the autoHideDelay supplied with the request (0 included), or 3000 ms when
\* none was supplied, has passed since the call.
C20_TimerAfterSuppliedDelay ==
  \A k \in 1..Len(timers) :
    (timers[k].kind = "auto" /\ instances[timers[k].inst].isMounted)
      => timers[k].rem = req.mustStay

\* C21: the slot holds what the latest show()/showCustom() call was given,
\* whatever it held before: the call's text and no custom content (show), or
\* the call's content and an empty message (showCustom), the call's options
\* ({} when none were given); and the call sets visible to true.
C21_SlotHoldsCall ==
  called.entry /= "" =>
    /\ pend.options = (IF called.options = None THEN EmptyOptions ELSE Val(called.options))
    /\ IF called.entry = "showCustom"
       THEN pend.customContent = called.content /\ pend.message = ""
       ELSE pend.customContent = None /\ <<pend.message>> = called.message

C21_CallShows == called' /= called => pend'.visible

C21_LastWriteWins == []C21_SlotHoldsCall /\ [][C21_CallShows]_vars

\* a showCustom() call replaced a text request that is still on screen
C21_Witness ==
  /\ nShows = 2 /\ called.entry = "showCustom"
  /\ st.visible /\ st.message /= "" /\ st.customContent = None
  /\ pend.customContent = Some(2)

\* C22: the type of the request is fixed by the entry point: success for
\* success(), failed for failed(), default for toaster() and showCustom(),
\* whatever the type of the previous request.
C22_KindByEntryPoint ==
  called.entry /= "" =>
    pend.type = (CASE called.entry = "success" -> "success"
                   [] called.entry = "failed" -> "failed"
                   [] OTHER -> "default")

\* showCustom() was called after failed()
C22_Witness ==
  /\ nShows = 2 /\ called.entry = "showCustom" /\ pend.type = "default"
  /\ st.type = "failed"

\* the base profile of a class
BaseProfile(class) ==
  CASE class = DYNAMIC_ISLAND -> dynamicIslandConfig
    [] class = NOTCH -> notchConfig
    [] OTHER -> standardConfig

\* C23: getDeviceAnimationConfig(deviceId, class) is the base profile of the
\* explicit class, or of detectDeviceType(deviceId) when none is given, with
\* exactly the fields of the override entry of deviceId replaced; with no
\* entry or no id it is the base profile.
C23_ProfileMerge ==
  probe /= None =>
    LET p == Val(probe)
        base == BaseProfile(IF p.deviceType /= None THEN Val(p.deviceType) ELSE p.detected)
        override == IF p.deviceId = None \/ p.deviceId = Some("") THEN << >>
                    ELSE deviceSpecificConfigs(Val(p.deviceId))
    IN  /\ DOMAIN p.config = DOMAIN base
        /\ \A f \in DOMAIN base :
             p.config[f] = IF f \in DOMAIN override THEN override[f] ELSE base[f]

\* an explicit class with an identifier of another class that has an override
C23_Witness ==
  /\ probe /= None
  /\ Val(probe).deviceId = Some("iPhone16,2") /\ Val(probe).deviceType = Some(NOTCH)
  /\ Val(probe).detected = DYNAMIC_ISLAND
  /\ Val(probe).config.expandedHeight = 80 /\ Val(probe).config.borderRadius = 25

\* the step is a tap on the notification
TapStep == nCloses' = nCloses + 1 /\ req'.by = "tap"

\* C24: a tap on the visible notification does exactly what invoking the
\* handle its instance registered does: the collapse sequence of that
\* instance starts, and nothing else changes.
C24_TapIsHandle ==
  [][TapStep =>
       /\ req'.target = cur /\ cur /= 0
       /\ CollapseStarted(cur)
       /\ <<instances', timers', pend', closeRef'>> =
            <<hideNotification(World, cur).inst, hideNotification(World, cur).tm,
              hideNotification(World, cur).pend, hideNotification(World, cur).closeRef>>
       /\ st' = st /\ hidden' = hidden]_vars

\* a Notch was tapped: its text fades and its collapse is scheduled
C24_Witness ==
  /\ req.by = "tap" /\ req.target = cur /\ cur /= 0
  /\ instances[cur].variant = NOTCH /\ instances[cur].hideCalls = 1
  /\ \E k \in 1..Len(timers) : timers[k].inst = cur /\ timers[k].kind = "collapse"

\* the class the provider is to use: its forceStyle prop when given, else
\* the class of the device identifier
C25_Expected ==
  CASE forceStyle = Some("dynamicIsland") -> DYNAMIC_ISLAND
    [] forceStyle = Some("notch") -> NOTCH
    [] forceStyle = Some("toast") -> STANDARD
    [] OTHER -> detectDeviceType(deviceId)

\* C25: when detection runs it sets the provider's device class to the class
\* of the forceStyle prop, or without the prop to detectDeviceType of the
\* identifier; it is the rendered class from then on as long as no call
\* forces a style of its own.
C25_AtDetection == (~detected /\ detected') => pend'.deviceType = C25_Expected

C25_AfterDetection ==
  (detected /\ Settled
     /\ (called.entry = "" \/ orEmpty(called.options).forceStyle = None))
    => st.deviceType = C25_Expected

C25_ProviderForceStyle == [][C25_AtDetection]_vars /\ []C25_AfterDetection

\* a provider forced to toast on a Dynamic Island device shows a Toast
C25_Witness ==
  /\ detected /\ Settled /\ forceStyle = Some("toast") /\ deviceId = Some("iPhone15,2")
  /\ st.visible /\ st.deviceType = STANDARD
  /\ cur /= 0 /\ instances[cur].variant = STANDARD /\ instances[cur].opacity = 1

\* the callbacks instance i has pending
PendingOf(tm, i) == SelectSeq(tm, LAMBDA t : t.inst = i)

\* C26: a close trigger (auto-hide timer, hide(), handle, tap) on an instance
\* that is already collapsing is a no-op: it schedules no timer, restarts no
\* fade or slide and calls no onHide.
C26_SecondTriggerNoOp ==
  [][\A i \in 1..Len(instances) :
       (instances[i].hideCalls >= 1 /\ instances'[i].hideCalls > instances[i].hideCalls)
         => /\ Len(PendingOf(timers', i)) <= Len(PendingOf(timers, i))
            /\ instances'[i].slideDown = instances[i].slideDown
            /\ instances'[i].onHideCalls = instances[i].onHideCalls]_vars

\* C27: the steps of a collapse come in order: the content fade-out, the
\* geometry collapse, completelyHidden = 1, onHide; onHide is never called
\* while completelyHidden is 0.
C27_Order ==
  \A i \in 1..Len(instances) :
    /\ instances'[i].onHideCalls > instances[i].onHideCalls
         => /\ instances'[i].completelyHidden = 1
            /\ instances'[i].hideCalls >= 1
            /\ instances'[i].variant /= STANDARD => instances'[i].expansion = 0
    /\ (instances[i].variant /= STANDARD
          /\ instances[i].completelyHidden = 0 /\ instances'[i].completelyHidden = 1)
         => instances[i].expansion = 0 /\ instances[i].hideCalls >= 1
    /\ (instances[i].variant /= STANDARD
          /\ instances[i].expansion = 1 /\ instances'[i].expansion = 0)
         => instances[i].hideCalls >= 1

C27_CollapseInOrder == [][C27_Order]_vars

\* a Dynamic Island went through its whole collapse and called onHide
C27_Witness ==
  \E i \in 1..Len(instances) :
    /\ instances[i].variant = DYNAMIC_ISLAND
    /\ instances[i].onHideCalls = 1 /\ instances[i].completelyHidden = 1
    /\ instances[i].expansion = 0 /\ ~st.visible /\ Settled

\* the callbacks of kind `kind` that instance i has pending
PendingKind(tm, i, kind) == SelectSeq(tm, LAMBDA t : t.inst = i /\ t.kind = kind)

\* C28: the delayed appear callback (175 ms island and notch, 50 ms toast)
\* never acts on an instance whose collapse has begun.
C28_NoAppearWhileCollapsing ==
  [][\A i \in 1..Len(instances) :
       (/\ instances[i].hideCalls >= 1
        /\ Len(PendingKind(timers', i, "appear")) < Len(PendingKind(timers, i, "appear")))
         => instances'[i] = instances[i]]_vars

\* C29: a layout event on an instance that is collapsing or unmounted changes
\* neither its committed width nor height and sets no measured-once flag.
C29_LayoutIgnoredAfterCollapse ==
  [][\A i \in 1..Len(instances) :
       (/\ instances'[i].layouts > instances[i].layouts
        /\ instances[i].hideCalls >= 1 \/ ~instances[i].isMounted)
         => /\ instances'[i].contentSize = instances[i].contentSize
            /\ instances'[i].measuredOnce = instances[i].measuredOnce]_vars

\* the due callbacks of instance i
DueOf(tm, i) == SelectSeq(tm, LAMBDA t : t.inst = i /\ t.rem = 0)

\* C30: a timer of an unmounted instance (auto-hide, appear, any stage of a
\* started collapse) has no effect when it fires: it writes no animated
\* value, schedules nothing and calls no onHide.
C30_TimersDeadAfterUnmount ==
  [][\A i \in 1..Len(instances) :
       (~instances[i].isMounted /\ Len(DueOf(timers', i)) < Len(DueOf(timers, i)))
         => /\ instances'[i] = instances[i]
            /\ Len(PendingOf(timers', i)) < Len(PendingOf(timers, i))
            /\ pend' = pend]_vars

\* C31: while a notification is on screen and no show()/showCustom() is
\* called, the completion of the device detection does not change the
\* component that is rendered, and keeps a style forced by the call's options.
C31_DetectionKeepsVariant ==
  [][(~detected /\ detected' /\ Settled /\ st.visible)
       => /\ renderNotification(pend') = renderNotification(pend)
          /\ st.options.forceStyle /= None
               => pend'.deviceType = styleToDeviceType(Val(st.options.forceStyle))]_vars

\* C32: an instance triggers the haptic signal at most once; with
\* enableHaptics true or unset it triggers it exactly once when it appears
\* (at mount for the island and the notch, in the delayed callback for the
\* toast), Success for success, Error for failed, Medium impact otherwise;
\* with enableHaptics false it triggers none.
C32_HapticState ==
  \A i \in 1..Len(instances) :
    LET inst == instances[i] IN
    /\ Len(inst.haptics) <= 1
    /\ ~hapticsEnabled(inst.props) => inst.haptics = << >>
    /\ inst.haptics /= << >> =>
         inst.haptics[1] = (CASE inst.props.type = "success" -> "Success"
                              [] inst.props.type = "failed" -> "Error"
                              [] OTHER -> "Medium")
    /\ (hapticsEnabled(inst.props) /\ inst.variant /= STANDARD) => Len(inst.haptics) = 1

C32_ToastAppears ==
  \A i \in 1..Len(instances) :
    (/\ instances[i].variant = STANDARD /\ instances[i].isMounted
     /\ hapticsEnabled(instances[i].props)
     /\ Len(PendingKind(timers', i, "appear")) < Len(PendingKind(timers, i, "appear")))
      => Len(instances'[i].haptics) = 1

C32_HapticOnce == []C32_HapticState /\ [][C32_ToastAppears]_vars

\* a toast ran its delayed callback and gave the Error signal
C32_Witness ==
  \E i \in 1..Len(instances) :
    /\ instances[i].variant = STANDARD /\ instances[i].isMounted
    /\ instances[i].opacity = 1 /\ instances[i].haptics = <<"Error">>

\* the padding a variant adds to the measured height
HeightPadding(variant) ==
  IF variant = DYNAMIC_ISLAND THEN CONTENT_PADDING_TOP + CONTENT_PADDING_BOTTOM
  ELSE (NOTCH_HEIGHT + 5) + NOTCH_CONTENT_PADDING_BOTTOM

\* a layout event reaches the mounted instance i in this step
LayoutStep(i) == instances'[i].layouts > instances[i].layouts /\ instances[i].isMounted

\* the island and notch half of C33: the committed height is
\* max(measured height + padding, expandedHeight)
C33_IslandNotchClamped ==
  [][\A i \in 1..Len(instances) :
       (LayoutStep(i) /\ instances[i].variant /= STANDARD)
         => \E layout \in Layouts :
              LET sum == layout.height + HeightPadding(instances[i].variant)
                  least == instances[i].deviceConfig.expandedHeight
              IN  instances'[i].contentSize.h = (IF sum >= least THEN sum ELSE least)]_vars

\* C33: after every layout event the committed expanded height of an island
\* or notch instance is max(measured height + top padding + bottom padding,
\* expandedHeight), and the committed height of every variant, the toast
\* included, is at least the expandedHeight of its profile.
C33_HeightAtLeastMinimum ==
  [][\A i \in 1..Len(instances) :
       LayoutStep(i)
         => instances'[i].contentSize.h >= instances[i].deviceConfig.expandedHeight]_vars

\* C34: the two tables share no identifier, and for every identifier,
\* undefined included, hasDynamicIsland(id) is true exactly when
\* detectDeviceType(id) is DYNAMIC_ISLAND and hasNotch(id) exactly when it is
\* NOTCH.
C34_PredicatesAgree ==
  /\ devicesWithDynamicIsland \cap devicesWithNotch = {}
  /\ probe /= None =>
       /\ Val(probe).hasDynamicIsland <=> (Val(probe).detected = DYNAMIC_ISLAND)
       /\ Val(probe).hasNotch <=> (Val(probe).detected = NOTCH)

\* an island device was asked about: island yes, notch no
C34_Witness ==
  /\ probe /= None /\ Val(probe).deviceId = Some("iPhone16,1")
  /\ Val(probe).hasDynamicIsland /\ ~Val(probe).hasNotch
  /\ Val(probe).detected = DYNAMIC_ISLAND

\* the profile of class `class` for what instance i knows of the device
\* identifier: nothing before loadDeviceConfig has resumed, deviceId after
OwnProfile(i, class) ==
  getDeviceAnimationConfig(
    IF instances[i].configLoaded /\ ~Falsy(deviceId) THEN deviceId ELSE None,
    Some(class))

\* the notch and toast half of C35
C35_NotchAndToastOwnClass ==
  \A i \in 1..Len(instances) :
    instances[i].variant /= DYNAMIC_ISLAND
      => instances[i].deviceConfig = OwnProfile(i, instances[i].variant)

\* C35: every component resolves its profile with its own class as the
\* explicit class (island: DYNAMIC_ISLAND, notch: NOTCH, toast: STANDARD),
\* before and after the device identifier is known and whatever class the
\* identifier detects to.
C35_OwnClassProfile ==
  \A i \in 1..Len(instances) :
    instances[i].deviceConfig = OwnProfile(i, instances[i].variant)

\* the max width of an island or notch instance
MaxWidthOf(inst) ==
  IF inst.variant = DYNAMIC_ISLAND
  THEN Min(BASE_DYNAMIC_ISLAND_MAX_WIDTH, widthRatio(inst.deviceConfig.maxWidthRatio))
  ELSE Min(widthRatio(inst.deviceConfig.maxWidthRatio), widthRatio(95))

\* the second half of C36: the committed width of a layout event never
\* exceeds the max width
C36_WidthAtMostMax ==
  [][\A i \in 1..Len(instances) :
       (LayoutStep(i) /\ instances[i].variant /= STANDARD)
         => instances'[i].contentSize.w <= MaxWidthOf(instances[i])]_vars

\* C36: an island or notch instance records min(measured width + 40, max
\* width) at its first layout event, no later layout event changes that
\* width, and the committed width never exceeds the max width.
C36_WidthMeasuredOnce ==
  [][\A i \in 1..Len(instances) :
       (LayoutStep(i) /\ instances[i].variant /= STANDARD)
         => /\ instances'[i].contentSize.w <= MaxWidthOf(instances[i])
            /\ instances[i].measuredOnce
                 => instances'[i].contentSize.w = instances[i].contentSize.w
            /\ ~instances[i].measuredOnce
                 => \E layout \in Layouts :
                      instances'[i].contentSize.w =
                        Min(layout.width + 40, MaxWidthOf(instances[i]))]_vars

\* the time left until the collapse of instance i calls onHide, read from the
\* stage of the collapse that is pending; -1 when no stage is pending
ToOnHide(is, tm, i) ==
  LET collapse == PendingKind(tm, i, "collapse")
      shrink == PendingKind(tm, i, "shrink")
      done == PendingKind(tm, i, "done")
  IN  IF is[i].variant = STANDARD
      THEN (IF is[i].slideDown.anim = "timing" THEN is[i].slideDown.rem ELSE -1)
      ELSE IF collapse /= << >>
           THEN collapse[1].rem + (ANIMATION_DURATION - 50) + ONHIDE_DELAY
      ELSE IF shrink /= << >> THEN shrink[1].rem + ONHIDE_DELAY
      ELSE IF done /= << >> THEN done[1].rem
      ELSE -1

\* the whole collapse of a variant
CollapseTime(variant) ==
  IF variant = STANDARD THEN ANIMATION_DURATION
  ELSE ANIMATION_DURATION \div 2 + (ANIMATION_DURATION - 50) + ONHIDE_DELAY

\* what C37 says of instance i in one step: the trigger leaves the whole
\* collapse time to go, the time to go never grows while the instance stays
\* mounted, and onHide is called when it is zero
CollapseOnTime(i) ==
  /\ (instances[i].hideCalls = 0 /\ instances'[i].hideCalls = 1 /\ instances'[i].isMounted)
       => /\ instances'[i].onHideCalls = instances[i].onHideCalls
          /\ ToOnHide(instances', timers', i) = CollapseTime(instances[i].variant)
  /\ (/\ instances[i].hideCalls = 1 /\ instances'[i].hideCalls = 1
      /\ instances'[i].isMounted /\ instances[i].onHideCalls = 0)
       => IF instances'[i].onHideCalls = 0
          THEN /\ ToOnHide(instances', timers', i) >= 0
               /\ ToOnHide(instances', timers', i) <= ToOnHide(instances, timers, i)
          ELSE ToOnHide(instances, timers, i) = 0

\* the island and notch half of C37: onHide 525 ms after the trigger
C37_IslandNotchOnTime ==
  [][\A i \in 1..Len(instances) :
       instances[i].variant /= STANDARD => CollapseOnTime(i)]_vars

\* C37: when a collapse is triggered at time t and the instance stays
\* mounted, onHide is called at t + 525 ms by the island and the notch and at
\* t + 350 ms by the toast, whatever the auto-hide timer does.
C37_OnHideOnTime ==
  [][\A i \in 1..Len(instances) : CollapseOnTime(i)]_vars

\* C38: the slot never carries both a text and a custom content: while the
\* custom content is not null the message is the empty string, in the queued
\* and in the rendered state, and a text show leaves the custom content null.
C38_OneContent ==
  /\ pend.customContent /= None => pend.message = ""
  /\ st.customContent /= None => st.message = ""

C38_TextShowClears ==
  (nShows' = nShows + 1 /\ called'.entry \in {"success", "failed", "toaster"})
    => pend'.customContent = None /\ pend'.message /= ""

C38_TextOrCustom == []C38_OneContent /\ [][C38_TextShowClears]_vars

\* a custom content replaced a text and is rendered
C38_Witness ==
  /\ nShows = 2 /\ called.entry = "showCustom" /\ Settled
  /\ st.visible /\ st.customContent /= None /\ st.message = ""

\* C39: the onHide the provider hands to a component only queues
\* visible = false: the message, the kind, the options, the custom content,
\* the device class and the close handle stay as they are.
C39_OnHideFrame ==
  [][(\E i \in 1..Len(instances) : instances'[i].onHideCalls > instances[i].onHideCalls)
       => /\ pend' = [pend EXCEPT !.visible = FALSE]
          /\ closeRef' = closeRef
          /\ st' = st]_vars

\* onHide has run for a text notification that is still rendered
C39_Witness ==
  /\ \E i \in 1..Len(instances) : instances[i].onHideCalls = 1 /\ closeRef = i
  /\ st.visible /\ ~pend.visible
  /\ pend.message /= "" /\ pend.deviceType = DYNAMIC_ISLAND

====
